---- MODULE Spec2Model ----
(***************************************************************************)
(* A model of the jsonrpc_client crate (src/lib/src/lib.rs): the JSON-RPC  *)
(* message model (Id, Request, Response, ResponsePayload, JsonRpcError),   *)
(* their serde encodings, the Error<C> type and the SendRequest transport  *)
(* contract, together with the typed call that the api/implement macros    *)
(* derive around send_request.                                             *)
(*                                                                         *)
(* Three specifications share the module's variables:                      *)
(*   SpecDecode   serde_json::from_str::<Response> on a wire object,       *)
(*                followed by Result::from(response.payload);              *)
(*   SpecRequest  construction of a Request and serde_json::to_string;     *)
(*   SpecCall     typed calls running concurrently against one transport.  *)
(***************************************************************************)
EXTENDS Integers, Sequences, FiniteSets

VARIABLES
    wire,        \* SpecDecode: the wire object handed to from_str, a sequence of <<key, value>>
    decoded,     \* SpecDecode: None, or the Result<Response, serde_json::Error> of from_str
    converted,   \* SpecDecode: None, or the Result<Value, JsonRpcError> of Result::from(payload)
    phase,       \* SpecRequest: "new" | "built" | "encoded" | "read"
    args,        \* SpecRequest: None, or the arguments the Request was constructed from
    req,         \* SpecRequest: None, or the Request value constructed
    encoded,     \* SpecRequest: None, or the wire object serde_json::to_string produced
    redecoded,   \* SpecRequest: None, or the Request read back from the wire object
    pc,          \* SpecCall: per call, "idle" | "inflight" | "returned" | "done"
    decl,        \* SpecCall: per call, the declared method (name, return type, arguments)
    request,     \* SpecCall: per call, the Request the call built
    inflight,    \* SpecCall: the Requests the transport currently holds, as [call, request]
    sendCount,   \* SpecCall: per call, how many times send_request was invoked
    sendResult,  \* SpecCall: per call, the Result<Response, C> send_request returned
    steps,       \* SpecCall: per call, the sequence of steps the typed call has taken
    outcome      \* SpecCall: per call, the sequence of values returned to the caller

vars == <<wire, decoded, converted, phase, args, req, encoded, redecoded,
          pc, decl, request, inflight, sendCount, sendResult, steps, outcome>>

decodeVars == <<wire, decoded, converted>>
requestVars == <<phase, args, req, encoded, redecoded>>
callVars == <<pc, decl, request, inflight, sendCount, sendResult, steps, outcome>>

None == <<"None">>

(***************************************************************************)
(* Rust's Result<T, E>.                                                    *)
(***************************************************************************)
Ok(x) == <<"Ok", x>>
Err(e) == <<"Err", e>>
IsOk(r) == r[1] = "Ok"
IsErr(r) == r[1] = "Err"

(***************************************************************************)
(* serde_json::Value, as tagged tuples.  An object is a sequence of        *)
(* <<key, value>> members in wire order.                                   *)
(***************************************************************************)
JNull == <<"null">>
JBool(b) == <<"bool", b>>
JNum(n) == <<"num", n>>
JStr(s) == <<"str", s>>
JArr(xs) == <<"arr", xs>>
JObj(members) == <<"obj", members>>

IsNum(v) == v[1] = "num"
IsStr(v) == v[1] = "str"
IsArr(v) == v[1] = "arr"
IsObj(v) == v[1] = "obj"

\* A serde_json::Error, carrying its message.
SerdeError(msg) == <<"serde_json::Error", msg>>

Keys(members) == {members[i][1] : i \in 1..Len(members)}

\* The value of the first member named k.
Member(members, k) ==
    LET i == CHOOSE j \in 1..Len(members) :
                 /\ members[j][1] = k
                 /\ \A h \in 1..(j - 1) : members[h][1] # k
    IN  members[i][2]

\* How many members are named k.
Count(members, k) == Cardinality({i \in 1..Len(members) : members[i][1] = k})

V1 == "1.0"
V2 == "2.0"

(***************************************************************************)
(* Id: #[serde(untagged)] enum { Number(i64), String(String) }.            *)
(***************************************************************************)
IdNumber(n) == <<"Number", n>>
IdString(s) == <<"String", s>>

BadSerializeId(id) == JObj(<< <<id[1], (IF id[1] = "Number" THEN JNum(id[2]) ELSE JStr(id[2]))>> >>)

\* Serialize for the untagged Id: the variant's content, without a tag.
SerializeId(id) ==
    IF id[1] = "Number" THEN JNum(id[2]) ELSE JStr(id[2])

BadDeserializeId(v) ==
    IF IsNum(v) \/ IsStr(v) THEN Ok(IdString(v[2]))
    ELSE Err(SerdeError("data did not match any variant of untagged enum Id"))

\* Deserialize for the untagged Id: the variants are tried in declaration
\* order, Number(i64) on an integer, then String on a string.
DeserializeId(v) ==
    IF IsNum(v) THEN Ok(IdNumber(v[2]))
    ELSE IF IsStr(v) THEN Ok(IdString(v[2]))
    ELSE Err(SerdeError("data did not match any variant of untagged enum Id"))

(***************************************************************************)
(* Request and its constructor.                                            *)
(***************************************************************************)
Request(id, jsonrpc, method, params) ==
    [id |-> id, jsonrpc |-> jsonrpc, method |-> method, params |-> params]

BadNewV2(method, params) == Request(IdNumber(1), V2, method, params)

new_v2(method, params) == Request(IdNumber(0), V2, method, params)

BadSerializeRequest(r) ==
    <<  <<"id", SerializeId(r.id)>>,
        <<"jsonrpc", JStr(r.jsonrpc)>>,
        <<"method", JStr(r.method)>> >>
    \o (IF r.params = <<>> THEN <<>> ELSE << <<"params", JArr(r.params)>> >>)

\* #[derive(Serialize)] on Request: the four fields in declaration order.
SerializeRequest(r) ==
    <<  <<"id", SerializeId(r.id)>>,
        <<"jsonrpc", JStr(r.jsonrpc)>>,
        <<"method", JStr(r.method)>>,
        <<"params", JArr(r.params)>> >>

(***************************************************************************)
(* JsonRpcError { code: i64, message: String } and its derived             *)
(* Deserialize: a map is read member by member (unknown keys skipped, a    *)
(* repeated field refused), a sequence is read positionally.               *)
(***************************************************************************)
JsonRpcError(code, message) == [code |-> code, message |-> message]

Some(x) == <<"Some", x>>

RECURSIVE VisitJsonRpcErrorMap(_, _, _)
VisitJsonRpcErrorMap(m, i, acc) ==
    IF i > Len(m)
    THEN IF acc.code = None THEN Err(SerdeError("missing field code"))
         ELSE IF acc.message = None THEN Err(SerdeError("missing field message"))
         ELSE Ok(JsonRpcError(acc.code[2], acc.message[2]))
    ELSE LET k == m[i][1]
             v == m[i][2]
         IN  IF k = "code"
             THEN IF acc.code # None THEN Err(SerdeError("duplicate field code"))
                  ELSE IF ~IsNum(v) THEN Err(SerdeError("invalid type: expected i64"))
                  ELSE VisitJsonRpcErrorMap(m, i + 1, [acc EXCEPT !.code = Some(v[2])])
             ELSE IF k = "message"
             THEN IF acc.message # None THEN Err(SerdeError("duplicate field message"))
                  ELSE IF ~IsStr(v) THEN Err(SerdeError("invalid type: expected a string"))
                  ELSE VisitJsonRpcErrorMap(m, i + 1, [acc EXCEPT !.message = Some(v[2])])
             ELSE VisitJsonRpcErrorMap(m, i + 1, acc)

VisitJsonRpcErrorSeq(xs) ==
    IF Len(xs) < 1 THEN Err(SerdeError("invalid length 0"))
    ELSE IF ~IsNum(xs[1]) THEN Err(SerdeError("invalid type: expected i64"))
    ELSE IF Len(xs) < 2 THEN Err(SerdeError("invalid length 1"))
    ELSE IF ~IsStr(xs[2]) THEN Err(SerdeError("invalid type: expected a string"))
    ELSE IF Len(xs) > 2 THEN Err(SerdeError("invalid length: expected 2 elements"))
    ELSE Ok(JsonRpcError(xs[1][2], xs[2][2]))

DeserializeJsonRpcError(v) ==
    IF IsObj(v) THEN VisitJsonRpcErrorMap(v[2], 1, [code |-> None, message |-> None])
    ELSE IF IsArr(v) THEN VisitJsonRpcErrorSeq(v[2])
    ELSE Err(SerdeError("invalid type: expected struct JsonRpcError"))

(***************************************************************************)
(* ResponsePayload: #[serde(rename_all = "lowercase")] enum                *)
(* { Result(Value), Error(JsonRpcError) }, flattened into Response.        *)
(***************************************************************************)
PayloadResult(v) == <<"Result", v>>
PayloadError(e) == <<"Error", e>>

BadPayloadVariants == {"Result", "Error"}

PayloadVariants == {"result", "error"}

\* Deserialize for serde_json::Value from buffered content keeps the value.
DeserializeValue(v) == Ok(v)

DeserializeVariant(k, v) ==
    IF k = "result"
    THEN PayloadResult(DeserializeValue(v)[2])
    ELSE PayloadError(DeserializeJsonRpcError(v)[2])

\* The flattened enum is read from the members that id and jsonrpc left
\* over: the first member, in wire order, whose key names a variant selects
\* the variant and supplies its content; the other members are not looked at.
DeserializeFlattenedPayload(collect) ==
    LET hits == {i \in 1..Len(collect) : collect[i][1] \in PayloadVariants}
    IN  IF hits = {}
        THEN Err(SerdeError("no variant of enum ResponsePayload found in flattened data"))
        ELSE LET i == CHOOSE j \in hits : \A h \in hits : j <= h
                 k == collect[i][1]
                 v == collect[i][2]
             IN  IF k = "error" /\ IsErr(DeserializeJsonRpcError(v))
                 THEN DeserializeJsonRpcError(v)
                 ELSE Ok(DeserializeVariant(k, v))

(***************************************************************************)
(* Response { id, jsonrpc, #[serde(flatten)] payload } and its             *)
(* constructors.                                                           *)
(***************************************************************************)
Response(id, jsonrpc, payload) == [id |-> id, jsonrpc |-> jsonrpc, payload |-> payload]

new_v2_result(id, result) == Response(id, V2, PayloadResult(result))

new_v2_error(id, error) == Response(id, V2, PayloadError(error))

\* The derived visit_map of Response: id and jsonrpc are read where they
\* occur, every other member is buffered for the flattened payload.
RECURSIVE VisitResponseMap(_, _, _)
VisitResponseMap(w, i, acc) ==
    IF i > Len(w)
    THEN IF acc.id = None THEN Err(SerdeError("missing field id"))
         ELSE IF acc.jsonrpc = None THEN Err(SerdeError("missing field jsonrpc"))
         ELSE LET p == DeserializeFlattenedPayload(acc.collect)
              IN  IF IsErr(p) THEN p
                  ELSE Ok(Response(acc.id[2], acc.jsonrpc[2], p[2]))
    ELSE LET k == w[i][1]
             v == w[i][2]
         IN  IF k = "id"
             THEN IF acc.id # None THEN Err(SerdeError("duplicate field id"))
                  ELSE IF IsErr(DeserializeId(v)) THEN DeserializeId(v)
                  ELSE VisitResponseMap(w, i + 1, [acc EXCEPT !.id = Some(DeserializeId(v)[2])])
             ELSE IF k = "jsonrpc"
             THEN IF acc.jsonrpc # None THEN Err(SerdeError("duplicate field jsonrpc"))
                  ELSE IF ~IsStr(v) THEN Err(SerdeError("invalid type: expected a borrowed string"))
                  ELSE VisitResponseMap(w, i + 1, [acc EXCEPT !.jsonrpc = Some(v[2])])
             ELSE VisitResponseMap(w, i + 1, [acc EXCEPT !.collect = Append(@, w[i])])

\* serde_json::from_str::<Response>.
DeserializeResponse(w) ==
    VisitResponseMap(w, 1, [id |-> None, jsonrpc |-> None, collect |-> <<>>])

BadResultFromPayload(payload) ==
    IF payload[1] = "Result" THEN Ok(payload[2]) ELSE Ok(JNull)

\* impl From<ResponsePayload> for Result<serde_json::Value, JsonRpcError>.
ResultFromPayload(payload) ==
    IF payload[1] = "Result" THEN Ok(payload[2]) ELSE Err(payload[2])

(***************************************************************************)
(* Error<C> { Client(C), JsonRpc(JsonRpcError), Serde(serde_json::Error) } *)
(* and its From conversions.                                               *)
(***************************************************************************)
BadErrorClient(c) == <<"Serde", SerdeError(c)>>

ErrorClient(c) == <<"Client", c>>

ErrorJsonRpc(e) == <<"JsonRpc", e>>

ErrorSerde(e) == <<"Serde", e>>

\* impl<C> From<serde_json::Error> for Error<C>.
ErrorFromSerde(e) == ErrorSerde(e)

BadErrorFromJsonRpc(e) == ErrorJsonRpc(JsonRpcError(e.code, ""))

\* impl<C> From<JsonRpcError> for Error<C>.
ErrorFromJsonRpc(e) == ErrorJsonRpc(e)

\* serde_json::from_value into the declared return type of a method.
FromValue(ret, v) ==
    IF ret = "i64" /\ IsNum(v) THEN Ok(<<"i64", v[2]>>)
    ELSE IF ret = "String" /\ IsStr(v) THEN Ok(<<"String", v[2]>>)
    ELSE Err(SerdeError("invalid type"))

(***************************************************************************)
(* Reading a serialized Request back.  The crate derives only Serialize    *)
(* for Request; the reader follows the wire format the specification       *)
(* gives: the four keys, the id through Id's own Deserialize.              *)
(***************************************************************************)
DecodeRequest(w) ==
    IF \E k \in {"id", "jsonrpc", "method", "params"} : Count(w, k) # 1
    THEN Err(SerdeError("missing or duplicate field"))
    ELSE IF IsErr(DeserializeId(Member(w, "id"))) THEN DeserializeId(Member(w, "id"))
    ELSE IF ~IsStr(Member(w, "jsonrpc")) \/ ~IsStr(Member(w, "method"))
    THEN Err(SerdeError("invalid type: expected a string"))
    ELSE IF ~IsArr(Member(w, "params"))
    THEN Err(SerdeError("invalid type: expected a sequence"))
    ELSE Ok(Request(DeserializeId(Member(w, "id"))[2], Member(w, "jsonrpc")[2],
                    Member(w, "method")[2], Member(w, "params")[2]))

(***************************************************************************)
(* Bounded inputs.                                                         *)
(***************************************************************************)
MaxParams == 2

RECURSIVE SeqsUpTo(_, _)
SeqsUpTo(S, n) ==
    IF n = 0 THEN {<<>>}
    ELSE LET shorter == SeqsUpTo(S, n - 1)
         IN  shorter \cup {Append(xs, x) : xs \in {ys \in shorter : Len(ys) = n - 1}, x \in S}

\* Every sequence of <<key, value>> members over distinct keys of K, the
\* value of key k drawn from vals[k].
RECURSIVE Objects(_, _)
Objects(K, vals) ==
    {<<>>} \cup UNION {{<<<<k, v>>>> \o rest : v \in vals[k], rest \in Objects(K \ {k}, vals)} : k \in K}

ErrorValues ==
    { JObj(<< <<"code", JNum(-32601)>>, <<"message", JStr("Method not found")>> >>),
      JObj(<< <<"message", JStr("")>>, <<"data", JNull>>, <<"code", JNum(0)>> >>),
      JArr(<<JNum(1), JStr("one")>>),
      JObj(<< <<"code", JNum(-32601)>> >>),
      JStr("Method not found") }

WireValues ==
    [ id      |-> {JNum(1), JNum(0), JStr("1"), JStr("abc"), JNull},
      jsonrpc |-> {JStr(V2), JStr(V1), JNum(2)},
      result  |-> {JNum(19), JNull, JStr("1")},
      error   |-> ErrorValues,
      extra   |-> {JBool(TRUE)} ]

Wires == Objects(DOMAIN WireValues, WireValues)

Methods == {"subtract", "getblockchaininfo", ""}
ParamValues == {JNum(42), JNum(23), JStr("42")}
ParamLists == SeqsUpTo(ParamValues, MaxParams)
Ids == {IdNumber(0), IdNumber(1), IdString("1"), IdString("0")}
Versions == {V1, V2}

(***************************************************************************)
(* SpecDecode: a wire object is decoded, and the payload of a decoded      *)
(* Response converted.                                                     *)
(***************************************************************************)
NumCalls == 2
Calls == 1..NumCalls

CallIdle ==
    /\ pc = [c \in Calls |-> "idle"]
    /\ decl = [c \in Calls |-> None]
    /\ request = [c \in Calls |-> None]
    /\ inflight = {}
    /\ sendCount = [c \in Calls |-> 0]
    /\ sendResult = [c \in Calls |-> None]
    /\ steps = [c \in Calls |-> <<>>]
    /\ outcome = [c \in Calls |-> <<>>]


RequestIdle ==
    /\ phase = "new"
    /\ args = None
    /\ req = None
    /\ encoded = None
    /\ redecoded = None

DecodeIdle ==
    /\ wire = <<>>
    /\ decoded = None
    /\ converted = None

FromStr ==
    /\ decoded = None
    /\ decoded' = DeserializeResponse(wire)
    /\ UNCHANGED <<wire, converted>>
    /\ UNCHANGED requestVars
    /\ UNCHANGED callVars

IntoResult ==
    /\ decoded # None
    /\ IsOk(decoded)
    /\ converted = None
    /\ converted' = ResultFromPayload(decoded[2].payload)
    /\ UNCHANGED <<wire, decoded>>
    /\ UNCHANGED requestVars
    /\ UNCHANGED callVars

(***************************************************************************)
(* SpecRequest: a Request is constructed, serialized and read back.        *)
(***************************************************************************)
NewV2(m, ps) ==
    /\ phase = "new"
    /\ phase' = "built"
    /\ args' = [how |-> "new_v2", id |-> IdNumber(0), jsonrpc |-> V2, method |-> m, params |-> ps]
    /\ req' = new_v2(m, ps)
    /\ UNCHANGED <<encoded, redecoded>>
    /\ UNCHANGED decodeVars
    /\ UNCHANGED callVars

\* A Request written as a struct literal: every field is pub.
Literal(id, ver, m, ps) ==
    /\ phase = "new"
    /\ phase' = "built"
    /\ args' = [how |-> "literal", id |-> id, jsonrpc |-> ver, method |-> m, params |-> ps]
    /\ req' = Request(id, ver, m, ps)
    /\ UNCHANGED <<encoded, redecoded>>
    /\ UNCHANGED decodeVars
    /\ UNCHANGED callVars

ToJsonString ==
    /\ phase = "built"
    /\ phase' = "encoded"
    /\ encoded' = SerializeRequest(req)
    /\ UNCHANGED <<args, req, redecoded>>
    /\ UNCHANGED decodeVars
    /\ UNCHANGED callVars

ReadBack ==
    /\ phase = "encoded"
    /\ phase' = "read"
    /\ redecoded' = DecodeRequest(encoded)
    /\ UNCHANGED <<args, req, encoded>>
    /\ UNCHANGED decodeVars
    /\ UNCHANGED callVars

InitDecode ==
    /\ wire \in Wires
    /\ decoded = None
    /\ converted = None
    /\ RequestIdle
    /\ CallIdle

NextDecode ==
    \/ FromStr
    \/ IntoResult

SpecDecode == InitDecode /\ [][NextDecode]_vars

InitRequest ==
    /\ DecodeIdle
    /\ RequestIdle
    /\ CallIdle

NextRequest ==
    \/ \E m \in Methods, ps \in ParamLists : NewV2(m, ps)
    \/ \E id \in Ids, ver \in Versions, m \in Methods, ps \in ParamLists : Literal(id, ver, m, ps)
    \/ ToJsonString
    \/ ReadBack

SpecRequest == InitRequest /\ [][NextRequest]_vars

(***************************************************************************)
(* SpecCall: typed calls against one transport.  A call builds its         *)
(* Request and hands it to send_request (Start), the transport completes   *)
(* send_request with a Response or with its own error (TransportReturn),   *)
(* and the call turns that into what the caller receives (Finish).         *)
(***************************************************************************)
\* The declared methods: name, arguments as serialized values, return type.
Declared ==
    { [method |-> "subtract", params |-> <<JNum(42), JNum(23)>>, ret |-> "i64"],
      [method |-> "getblockchaininfo", params |-> <<>>, ret |-> "String"] }

\* A caller either takes new_v2's Id or supplies its own.
SuppliedIds == {None, Some(IdString("1"))}

TransportErrors == {"connection refused", "operation timed out"}

ResponseIds == {IdNumber(0), IdString("1")}

ResponseResults == {JNum(19), JStr("main")}

ResponseErrors == {JsonRpcError(-32601, "Method not found"), JsonRpcError(0, "")}

\* What send_request may return: the trait fixes the type only.
TransportResults ==
    {Err(e) : e \in TransportErrors}
    \cup {Ok(new_v2_result(id, v)) : id \in ResponseIds, v \in ResponseResults}
    \cup {Ok(new_v2_error(id, e)) : id \in ResponseIds, e \in ResponseErrors}

BuildRequest(d, supplied) ==
    IF supplied = None
    THEN new_v2(d.method, d.params)
    ELSE [new_v2(d.method, d.params) EXCEPT !.id = supplied[2]]

Start(c, d, supplied) ==
    /\ pc[c] = "idle"
    /\ pc' = [pc EXCEPT ![c] = "inflight"]
    /\ decl' = [decl EXCEPT ![c] = [method |-> d.method, params |-> d.params,
                                    ret |-> d.ret, supplied |-> supplied]]
    /\ request' = [request EXCEPT ![c] = BuildRequest(d, supplied)]
    /\ inflight' = inflight \cup {[call |-> c, request |-> BuildRequest(d, supplied)]}
    /\ sendCount' = [sendCount EXCEPT ![c] = @ + 1]
    /\ steps' = [steps EXCEPT ![c] = @ \o <<"build_request", "send_request">>]
    /\ UNCHANGED <<sendResult, outcome>>
    /\ UNCHANGED decodeVars
    /\ UNCHANGED requestVars

TransportReturn(c, r) ==
    /\ pc[c] = "inflight"
    /\ \E held \in inflight :
         /\ held.call = c
         /\ inflight' = inflight \ {held}
    /\ pc' = [pc EXCEPT ![c] = "returned"]
    /\ sendResult' = [sendResult EXCEPT ![c] = r]
    /\ UNCHANGED <<decl, request, sendCount, steps, outcome>>
    /\ UNCHANGED decodeVars
    /\ UNCHANGED requestVars

\* The rest of the typed call, once send_request has returned.
CallResult(ret, r) ==
    IF IsErr(r) THEN Err(ErrorClient(r[2]))
    ELSE LET success == ResultFromPayload(r[2].payload)
         IN  IF IsErr(success) THEN Err(ErrorFromJsonRpc(success[2]))
             ELSE LET retval == FromValue(ret, success[2])
                  IN  IF IsErr(retval) THEN Err(ErrorFromSerde(retval[2]))
                      ELSE Ok(retval[2])

CallSteps(r) ==
    IF IsErr(r) THEN <<>>
    ELSE IF IsErr(ResultFromPayload(r[2].payload)) THEN <<"convert_payload">>
    ELSE <<"convert_payload", "from_value">>

Finish(c) ==
    /\ pc[c] = "returned"
    /\ pc' = [pc EXCEPT ![c] = "done"]
    /\ steps' = [steps EXCEPT ![c] = @ \o CallSteps(sendResult[c])]
    /\ outcome' = [outcome EXCEPT ![c] = Append(@, CallResult(decl[c].ret, sendResult[c]))]
    /\ UNCHANGED <<decl, request, inflight, sendCount, sendResult>>
    /\ UNCHANGED decodeVars
    /\ UNCHANGED requestVars

InitCall ==
    /\ DecodeIdle
    /\ RequestIdle
    /\ CallIdle

NextCall ==
    \/ \E c \in Calls, d \in Declared, supplied \in SuppliedIds : Start(c, d, supplied)
    \/ \E c \in Calls, r \in TransportResults : TransportReturn(c, r)
    \/ \E c \in Calls : Finish(c)

SpecCall == InitCall /\ [][NextCall]_vars

(***************************************************************************)
(* Properties of SpecCall.                                                 *)
(***************************************************************************)
Returned(c) == pc[c] \in {"returned", "done"}

DecodingSteps == {"convert_payload", "from_value"}

StepsTaken(c) == {steps[c][i] : i \in 1..Len(steps[c])}

\* C1: a typed call whose send_request returned a failure ends with
\* Error::Client carrying that very transport error, and takes no step that
\* converts or deserializes a Response.
C1_TransportFailureIsClientError ==
    \A c \in Calls :
        (Returned(c) /\ IsErr(sendResult[c])) =>
            /\ StepsTaken(c) \cap DecodingSteps = {}
            /\ pc[c] = "done" => outcome[c] = <<Err(<<"Client", sendResult[c][2]>>)>>

C1_Witness ==
    \E c \in Calls :
        /\ pc[c] = "done"
        /\ sendResult[c] = Err("connection refused")
        /\ outcome[c] = <<Err(<<"Client", "connection refused">>)>>

\* C2: a typed call whose transport returned a Response with an Error
\* payload ends with Error::JsonRpc carrying the same code and message, and
\* never with a success.
C2_ErrorPayloadIsJsonRpcError ==
    \A c \in Calls :
        (pc[c] = "done" /\ IsOk(sendResult[c]) /\ sendResult[c][2].payload[1] = "Error") =>
            /\ Len(outcome[c]) = 1
            /\ IsErr(outcome[c][1])
            /\ outcome[c][1][2][1] = "JsonRpc"
            /\ outcome[c][1][2][2].code = sendResult[c][2].payload[2].code
            /\ outcome[c][1][2][2].message = sendResult[c][2].payload[2].message

C2_Witness ==
    \E c \in Calls :
        /\ pc[c] = "done"
        /\ IsOk(sendResult[c])
        /\ sendResult[c][2].payload = <<"Error", [code |-> -32601, message |-> "Method not found"]>>
        /\ IsErr(outcome[c][1])

\* C3, as claimed: every Response a call receives carries the Id of the
\* call's own Request.
C3_ResponseIdEchoed ==
    \A c \in Calls :
        (Returned(c) /\ IsOk(sendResult[c])) => sendResult[c][2].id = request[c].id

IdBuilt(c) ==
    IF decl[c].supplied = None THEN <<"Number", 0>> ELSE decl[c].supplied[2]

\* C3, as amended: the Request a call hands to the transport carries the Id
\* it was built with (Number(0) from new_v2, or the caller's), unchanged for
\* as long as the transport holds it; the Response's Id is taken as the
\* transport returned it and is not compared: two calls declared alike that
\* received the same payload end alike, whatever Ids their Responses carry.
C3_IdSentUnchangedAndNotCompared ==
    /\ \A c \in Calls : pc[c] # "idle" => request[c].id = IdBuilt(c)
    /\ \A held \in inflight :
          /\ pc[held.call] = "inflight"
          /\ held.request.id = IdBuilt(held.call)
          /\ held.request = request[held.call]
    /\ \A c1, c2 \in Calls :
          ( /\ pc[c1] = "done" /\ pc[c2] = "done"
            /\ IsOk(sendResult[c1]) /\ IsOk(sendResult[c2])
            /\ decl[c1].ret = decl[c2].ret
            /\ sendResult[c1][2].payload = sendResult[c2][2].payload )
          => outcome[c1] = outcome[c2]

\* Two calls with distinct Ids were in flight together; one has ended with a
\* Response whose Id is not its Request's, the other is still in flight.
C3_Witness ==
    \E c1, c2 \in Calls :
        /\ pc[c1] = "done"
        /\ pc[c2] = "inflight"
        /\ request[c1].id # request[c2].id
        /\ IsOk(sendResult[c1])
        /\ sendResult[c1][2].id # request[c1].id
        /\ IsOk(outcome[c1][1])

OutcomeKind(r) ==
    IF IsOk(r) THEN "Value" ELSE r[2][1]

\* C10: every typed call invokes send_request exactly once; it ends with
\* exactly one outcome, which is a typed value, a Client error, a JsonRpc
\* error or a Serde error; a transport failure ends as Client, an Error
\* payload as JsonRpc, and only a Result payload of the declared shape ends
\* as a value.
C10_OneSendOneOutcome ==
    \A c \in Calls :
        /\ sendCount[c] = (IF pc[c] = "idle" THEN 0 ELSE 1)
        /\ Len(SelectSeq(steps[c], LAMBDA st : st = "send_request")) = sendCount[c]
        /\ pc[c] # "done" => outcome[c] = <<>>
        /\ pc[c] = "done" =>
              /\ Len(outcome[c]) = 1
              /\ OutcomeKind(outcome[c][1]) \in {"Value", "Client", "JsonRpc", "Serde"}
              /\ OutcomeKind(outcome[c][1]) = "Client" <=> IsErr(sendResult[c])
              /\ OutcomeKind(outcome[c][1]) = "JsonRpc" <=>
                    (IsOk(sendResult[c]) /\ sendResult[c][2].payload[1] = "Error")
              /\ OutcomeKind(outcome[c][1]) = "Value" =>
                    (IsOk(sendResult[c]) /\ sendResult[c][2].payload[1] = "Result")

C10_Witness ==
    \E c1, c2 \in Calls :
        /\ pc[c1] = "done" /\ pc[c2] = "done"
        /\ OutcomeKind(outcome[c1][1]) = "Serde"
        /\ OutcomeKind(outcome[c2][1]) = "Value"
        /\ sendCount[c1] = 1 /\ sendCount[c2] = 1

(***************************************************************************)
(* Properties of SpecDecode.                                               *)
(***************************************************************************)
HasKey(k) == k \in Keys(wire)

\* The envelope is well formed: id is an integer or a string, jsonrpc a string.
WellFormedEnvelope ==
    /\ HasKey("id")
    /\ HasKey("jsonrpc")
    /\ Member(wire, "id")[1] \in {"num", "str"}
    /\ Member(wire, "jsonrpc")[1] = "str"

\* The error member is an object with an integer code and a string message.
WellFormedError ==
    /\ HasKey("error")
    /\ Member(wire, "error")[1] = "obj"
    /\ Count(Member(wire, "error")[2], "code") = 1
    /\ Count(Member(wire, "error")[2], "message") = 1
    /\ Member(Member(wire, "error")[2], "code")[1] = "num"
    /\ Member(Member(wire, "error")[2], "message")[1] = "str"

\* C4, as claimed: a wire object holding both a result and an error member,
\* or neither, fails to decode.
C4_BothOrNeitherFails ==
    (decoded # None /\ (HasKey("result") <=> HasKey("error"))) => IsErr(decoded)

\* C5: a well-formed wire object with a result member and no error member
\* decodes to ResponsePayload::Result carrying that value; one with an error
\* member and no result member decodes to ResponsePayload::Error carrying
\* that code and message; wherever the members stand and whatever id and
\* jsonrpc are.
C5_VariantByFieldPresence ==
    (decoded # None /\ WellFormedEnvelope) =>
        /\ (HasKey("result") /\ ~HasKey("error")) =>
              /\ IsOk(decoded)
              /\ decoded[2].payload = <<"Result", Member(wire, "result")>>
        /\ (WellFormedError /\ ~HasKey("result")) =>
              /\ IsOk(decoded)
              /\ decoded[2].payload[1] = "Error"
              /\ decoded[2].payload[2].code = Member(Member(wire, "error")[2], "code")[2]
              /\ decoded[2].payload[2].message = Member(Member(wire, "error")[2], "message")[2]

\* The error member comes first and its own members are out of order.
C5_Witness ==
    /\ decoded # None
    /\ IsOk(decoded)
    /\ ~HasKey("result")
    /\ wire[1][1] = "error"
    /\ wire[Len(wire)][1] = "id"
    /\ decoded[2].payload = <<"Error", [code |-> 0, message |-> ""]>>

\* C6: a decoded Id keeps its wire representation: an integer id n is
\* Id::Number(n), a string id s is Id::String(s), digits or not; and a
\* well-formed Response with either kind of id does decode.
C6_IdKindPreserved ==
    decoded # None =>
        /\ IsOk(decoded) =>
              /\ HasKey("id")
              /\ Member(wire, "id")[1] = "num" =>
                    decoded[2].id = <<"Number", Member(wire, "id")[2]>>
              /\ Member(wire, "id")[1] = "str" =>
                    decoded[2].id = <<"String", Member(wire, "id")[2]>>
        /\ (WellFormedEnvelope /\ HasKey("result") /\ ~HasKey("error")) => IsOk(decoded)

C6_Witness ==
    /\ decoded # None
    /\ IsOk(decoded)
    /\ Member(wire, "id") = <<"str", "1">>
    /\ decoded[2].id = <<"String", "1">>

\* C9: Result::from(payload) maps Result(v) to Ok(v) and Error(e) to Err(e),
\* and maps every payload of a decoded Response.
C9_ConversionPreservesVariant ==
    /\ converted # None =>
          /\ decoded[2].payload[1] = "Result" => converted = <<"Ok", decoded[2].payload[2]>>
          /\ decoded[2].payload[1] = "Error" => converted = <<"Err", decoded[2].payload[2]>>
    /\ (decoded # None /\ IsOk(decoded) /\ converted = None) => ENABLED IntoResult

C9_Witness ==
    /\ converted # None
    /\ decoded[2].payload[1] = "Error"
    /\ converted = <<"Err", [code |-> -32601, message |-> "Method not found"]>>

(***************************************************************************)
(* Properties of SpecRequest.                                              *)
(***************************************************************************)
\* C7: a Request read back from its serialization is the Request that was
\* serialized: id with its kind, version, method and params in order.
C7_RequestRoundTrip ==
    phase = "read" =>
        /\ redecoded = <<"Ok", req>>
        /\ redecoded[2].id = args.id
        /\ redecoded[2].jsonrpc = args.jsonrpc
        /\ redecoded[2].method = args.method
        /\ redecoded[2].params = args.params

C7_Witness ==
    /\ phase = "read"
    /\ args.how = "literal"
    /\ args.id = <<"String", "1">>
    /\ args.jsonrpc = "1.0"
    /\ args.params = << <<"num", 23>>, <<"num", 42>> >>
    /\ IsOk(redecoded)

\* C8: Request::new_v2(m, ps) serializes to an object of exactly the four
\* members id, jsonrpc, method and params: id the integer 0, jsonrpc "2.0",
\* method m, params the elements of ps in order.
C8_NewV2WireObject ==
    (phase \in {"encoded", "read"} /\ args.how = "new_v2") =>
        /\ Len(encoded) = 4
        /\ Keys(encoded) = {"id", "jsonrpc", "method", "params"}
        /\ Member(encoded, "id") = <<"num", 0>>
        /\ Member(encoded, "jsonrpc") = <<"str", "2.0">>
        /\ Member(encoded, "method") = <<"str", args.method>>
        /\ Member(encoded, "params") = <<"arr", args.params>>

C8_Witness ==
    /\ phase = "encoded"
    /\ args.how = "new_v2"
    /\ encoded = << <<"id", <<"num", 0>>>>,
                    <<"jsonrpc", <<"str", "2.0">>>>,
                    <<"method", <<"str", "subtract">>>>,
                    <<"params", <<"arr", << <<"num", 42>>, <<"num", 23>> >> >>>> >>

====
